---- MODULE Spec2Model ----
(***************************************************************************)
(* Model of ASR2001/generate_task_plan:                                    *)
(*   - interview/: CreateInterviewAttemptInteractor over the storage       *)
(*     interface and its ORM-backed StorageImplementation;                 *)
(*   - scripts/index_code_base.py: the indexing walk;                      *)
(*   - scripts/search_code_base.py, scripts/generate_task_plan.py: the     *)
(*     search and task-plan pipeline.                                      *)
(* Python strings are sequences of tokens (a literal chunk of a template   *)
(* is one token, a character of a dynamic string is one token); an         *)
(* Optional value is <<>> (None) or <<v>>.                                 *)
(***************************************************************************)
EXTENDS Integers, Sequences, FiniteSets, TLC

VARIABLES
    program,      \* which entry point this behaviour runs
    now,          \* wall clock (datetime.now()), in ticks of 1/TicksPerSecond s
    \* ---- interview app
    db,           \* the four tables of interview/models/models.py
    next_uuid,    \* source of uuid.uuid4 primary keys
    call_log,     \* storage-interface calls made by the last interactor call
    lookup_args,  \* Optional: the id list the last call looked up
    lookup_rows,  \* what get_interview_details returned in the last call
    handed_dto,   \* Optional: the InterviewAttemptDTO handed to storage
    result,       \* outcome of the last interactor call
    last_args,    \* Optional: (interview_id, user_id) of the last call
    \* ---- the vector store (Weaviate), shared by indexing and search
    store,        \* [exists: has collection CodeFile, objects: its records,
                  \*  creates: collections.create calls served]
    \* ---- index_code_base.py
    root,         \* the parts of root_path
    tree,         \* what root_path.glob('**/*') yields, in order
    idx_pc,       \* position of main(): "start", "walking", "done", "crashed"
    idx_pos,      \* index in tree of the next path of the for loop
    idx_log,      \* per path visited: what the loop body did
    embed_calls,  \* texts POSTed to the embedding endpoint, in order
    \* ---- generate_task_plan.py
    queries_dir,  \* the files of QUERIES_DIR: a set of [name, content]
    runs_done,    \* number of generate_task_plan() calls made
    run,          \* what the last generate_task_plan() call did
    history       \* the (query, plan) of every call that ended without error

interview_vars == <<db, next_uuid, call_log, lookup_args, lookup_rows, handed_dto, result, last_args>>

store_vars == <<store>>

index_vars == <<root, tree, idx_pc, idx_pos, idx_log, embed_calls>>

plan_vars == <<queries_dir, runs_done, run, history>>

vars == <<program, now, interview_vars, store_vars, index_vars, plan_vars>>

----------------------------------------------------------------------------
(* Bounds *)
MaxClock == 3
MaxAttempts == 3
MaxFiles == 2
MaxDocs == 6
MaxRuns == 2

None == <<>>
Some(v) == <<v>>

\* What a hosted endpoint answers: an HTTP error, or a response with a body.
HttpError == [ok |-> FALSE, body |-> <<>>]
HttpOk(body) == [ok |-> TRUE, body |-> body]

InterviewIds == {"i1", "i2"}
UserIds == {"u1", "u2"}

Min(a, b) == IF a < b THEN a ELSE b

\* A set as a sequence, in some fixed order (a queryset's iteration order).
RECURSIVE SetToSeq(_)
SetToSeq(S) ==
    IF S = {} THEN <<>>
    ELSE LET x == CHOOSE y \in S : TRUE IN <<x>> \o SetToSeq(S \ {x})

Range(s) == {s[i] : i \in 1..Len(s)}

----------------------------------------------------------------------------
(* interview/models/models.py *)

Interview(id) ==
    [id |-> id, title |-> "title", description |-> None, duration |-> 60]

InterviewConfig(interview_id) ==
    [interview_id |-> interview_id,
     is_default_access_allowed |-> FALSE,
     should_end_interview_after_duration |-> TRUE]

UserInterviewAccess(interview_id, user_id) ==
    [interview_id |-> interview_id, user_id |-> user_id]

\* InterviewAttempt.objects.create(**kwargs): fields not passed take the
\* model's defaults (id = uuid4, the nullable datetimes = None);
\* start_datetime is auto_now_add, so the row gets the time of the insert.
InterviewAttempt(uuid, kwargs, insert_time) ==
    [id |-> uuid,
     interview_id |-> kwargs.interview_id,
     user_id |-> kwargs.user_id,
     start_datetime |-> Some(insert_time),
     end_datetime |->
        IF "end_datetime" \in DOMAIN kwargs THEN kwargs.end_datetime ELSE None,
     scheduled_end_datetime |->
        IF "scheduled_end_datetime" \in DOMAIN kwargs
        THEN kwargs.scheduled_end_datetime ELSE None]

----------------------------------------------------------------------------
(* interview/interactors/storage_interface/dtos.py *)

InterviewDTO(interview) ==
    [id |-> interview.id, title |-> interview.title,
     description |-> interview.description, duration |-> interview.duration]

InterviewAttemptDTO(interview_id, user_id, start, end, scheduled_end) ==
    [interview_id |-> interview_id, user_id |-> user_id,
     start_datetime |-> start, end_datetime |-> end,
     scheduled_end_datetime |-> scheduled_end]

----------------------------------------------------------------------------
(* interview/storages/storage_implementation.py *)

\* Interview.objects.filter(id__in=interview_ids), one DTO per row.
StorageGetInterviewDetails(tables, interview_ids) ==
    LET interviews ==
            SetToSeq({i \in tables.Interview : i.id \in Range(interview_ids)})
    IN [k \in 1..Len(interviews) |-> InterviewDTO(interviews[k])]

\* Mutant: the insert also stamps end_datetime with the start time.
StorageCreateKwargs_StampsEnd(dto) ==
    [interview_id |-> dto.interview_id,
     user_id |-> dto.user_id,
     start_datetime |-> dto.start_datetime,
     end_datetime |-> dto.start_datetime]

\* Mutant: scheduled_end_datetime is passed on to the insert as well.
StorageCreateKwargs_PassesScheduled(dto) ==
    [interview_id |-> dto.interview_id,
     user_id |-> dto.user_id,
     start_datetime |-> dto.start_datetime,
     end_datetime |-> dto.end_datetime,
     scheduled_end_datetime |-> dto.scheduled_end_datetime]

\* The keyword arguments create_interview_attempt passes to objects.create.
StorageCreateKwargs(dto) ==
    [interview_id |-> dto.interview_id,
     user_id |-> dto.user_id,
     start_datetime |-> dto.start_datetime,
     end_datetime |-> dto.end_datetime]

\* Mutant: get_or_create on (interview, user) instead of create.
StorageCreateInterviewAttempt_GetOrCreate(tables, dto, uuid, insert_time) ==
    IF \E k \in 1..Len(tables.InterviewAttempt) :
          /\ tables.InterviewAttempt[k].interview_id = dto.interview_id
          /\ tables.InterviewAttempt[k].user_id = dto.user_id
    THEN tables
    ELSE [tables EXCEPT !.InterviewAttempt =
            Append(@, InterviewAttempt(uuid, StorageCreateKwargs(dto), insert_time))]

\* The tables after create_interview_attempt(dto): one row appended.
StorageCreateInterviewAttempt(tables, dto, uuid, insert_time) ==
    [tables EXCEPT !.InterviewAttempt =
        Append(@, InterviewAttempt(uuid, StorageCreateKwargs(dto), insert_time))]

----------------------------------------------------------------------------
(* interview/interactors/create_interview_attempt_interactor.py *)

\* Mutant: the emptiness test is dropped, nothing is ever raised.
ValidateInterviewDetails_NoRaise(tables, interview_id) ==
    LET interview_dtos == StorageGetInterviewDetails(tables, <<interview_id>>)
    IN [calls |-> <<"get_interview_details">>,
        args |-> <<interview_id>>,
        rows |-> interview_dtos,
        raised |-> "none"]

\* Mutant: an empty lookup is retried once before raising.
ValidateInterviewDetails_Retry(tables, interview_id) ==
    LET interview_dtos == StorageGetInterviewDetails(tables, <<interview_id>>)
    IN [calls |-> IF interview_dtos = <<>>
                  THEN <<"get_interview_details", "get_interview_details">>
                  ELSE <<"get_interview_details">>,
        args |-> <<interview_id>>,
        rows |-> interview_dtos,
        raised |-> IF interview_dtos = <<>>
                   THEN "InvalidInterviewIdException" ELSE "none"]

\* Mutant: a generic error is raised instead of the invalid-id error.
ValidateInterviewDetails_WrongError(tables, interview_id) ==
    LET interview_dtos == StorageGetInterviewDetails(tables, <<interview_id>>)
    IN [calls |-> <<"get_interview_details">>,
        args |-> <<interview_id>>,
        rows |-> interview_dtos,
        raised |-> IF interview_dtos = <<>> THEN "Exception" ELSE "none"]

\* validate_interview_details: one lookup, raise on an empty result.
ValidateInterviewDetails(tables, interview_id) ==
    LET interview_dtos == StorageGetInterviewDetails(tables, <<interview_id>>)
    IN [calls |-> <<"get_interview_details">>,
        args |-> <<interview_id>>,
        rows |-> interview_dtos,
        raised |-> IF interview_dtos = <<>>
                   THEN "InvalidInterviewIdException" ELSE "none"]

\* The record built on lines 18-24.
BuildAttemptDTO(interview_id, user_id, t) ==
    InterviewAttemptDTO(interview_id, user_id, Some(t), None, None)

\* create_interview_attempt(interview_id, user_id), the whole handler.  The
\* insert happens at the same second as the DTO's now() or one later.
CreateInterviewAttempt(interview_id, user_id, delay) ==
    LET v == ValidateInterviewDetails(db, interview_id)
        dto == BuildAttemptDTO(interview_id, user_id, now)
        insert_time == Min(now + delay, MaxClock)
    IN /\ program = "interview_app"
       /\ v.raised = "none" => Len(db.InterviewAttempt) < MaxAttempts
       /\ last_args' = Some(<<interview_id, user_id>>)
       /\ lookup_args' = Some(v.args)
       /\ lookup_rows' = v.rows
       /\ IF v.raised # "none"
          THEN /\ result' = v.raised
               /\ call_log' = v.calls
               /\ handed_dto' = None
               /\ UNCHANGED <<db, next_uuid, now>>
          ELSE /\ result' = "ok"
               /\ call_log' = v.calls \o <<"create_interview_attempt">>
               /\ handed_dto' = Some(dto)
               /\ db' = StorageCreateInterviewAttempt(db, dto, next_uuid, insert_time)
               /\ next_uuid' = next_uuid + 1
               /\ now' = insert_time
       /\ UNCHANGED <<program, store_vars, index_vars, plan_vars>>

CreateInterviewAttemptCall ==
    \E interview_id \in InterviewIds, user_id \in UserIds, delay \in 0..1 :
        CreateInterviewAttempt(interview_id, user_id, delay)

\* StorageImplementation.create_interview_attempt(dto) called on its own,
\* with any DTO for a stored interview.
StorageCreateCall ==
    /\ program = "storage"
    /\ Len(db.InterviewAttempt) < MaxAttempts
    /\ \E interview_id \in {i.id : i \in db.Interview}, user_id \in UserIds,
          end \in {None, Some(now)}, scheduled_end \in {None, Some(now)} :
          LET dto == InterviewAttemptDTO(interview_id, user_id, Some(now),
                                         end, scheduled_end)
          IN /\ handed_dto' = Some(dto)
             /\ db' = StorageCreateInterviewAttempt(db, dto, next_uuid, now)
    /\ next_uuid' = next_uuid + 1
    /\ call_log' = <<"create_interview_attempt">>
    /\ result' = "ok"
    /\ UNCHANGED <<program, now, lookup_args, lookup_rows, last_args,
                   store_vars, index_vars, plan_vars>>

\* Time passes.
Tick ==
    /\ now < MaxClock
    /\ now' = now + 1
    /\ UNCHANGED <<program, interview_vars, store_vars, index_vars, plan_vars>>

\* The interview app is not run.
InterviewIdle ==
    /\ db = [Interview |-> {}, InterviewConfig |-> {},
             InterviewAttempt |-> <<>>, UserInterviewAccess |-> {}]
    /\ next_uuid = 1
    /\ call_log = <<>>
    /\ lookup_args = None
    /\ lookup_rows = <<>>
    /\ handed_dto = None
    /\ result = "none"
    /\ last_args = None

----------------------------------------------------------------------------
(* Python str and pathlib helpers *)

Whitespace == {" ", "\n", "\t"}

RECURSIVE LStrip(_)
LStrip(s) ==
    IF s # <<>> /\ Head(s) \in Whitespace THEN LStrip(Tail(s)) ELSE s

RECURSIVE RStrip(_)
RStrip(s) ==
    IF s # <<>> /\ s[Len(s)] \in Whitespace
    THEN RStrip(SubSeq(s, 1, Len(s) - 1)) ELSE s

\* Mutant: strip() is left out, only the empty string counts as empty.
Strip_NoTrim(s) == s

\* str.strip()
Strip(s) == RStrip(LStrip(s))

\* needle in hay, for strings
Contains(hay, needle) ==
    \E i \in 1..(Len(hay) - Len(needle) + 1) :
        SubSeq(hay, i, i + Len(needle) - 1) = needle

\* Path.suffix of the file names used in the walks below.
Suffix(name) ==
    CASE name = "a.py" -> <<".", "p", "y">>
      [] name = "b.pyc" -> <<".", "p", "y", "c">>
      [] name = "d.py" -> <<".", "p", "y">>
      [] name = "notes.txt" -> <<".", "t", "x", "t">>
      [] OTHER -> <<>>

\* str(path): the parts joined by "/".
RECURSIVE JoinPath(_)
JoinPath(parts) ==
    IF Len(parts) <= 1 THEN parts
    ELSE <<Head(parts), "/">> \o JoinPath(Tail(parts))

----------------------------------------------------------------------------
(* scripts/search_code_base.py *)

DefaultLimit == 5

Abs(x) == IF x < 0 THEN -x ELSE x

\* Distance of a stored vector to the query vector.
Distance(object, near_vector) == Abs(object.vector[1] - near_vector[1])

\* collection.query.near_vector(near_vector, limit): the objects nearest to
\* the vector, nearest first, at most limit of them.
RECURSIVE NearestFirst(_, _, _, _)
NearestFirst(objects, left, near_vector, limit) ==
    IF left = {} \/ limit = 0 THEN <<>>
    ELSE LET i == CHOOSE j \in left : \A k \in left :
                     \/ Distance(objects[j], near_vector)
                           < Distance(objects[k], near_vector)
                     \/ /\ Distance(objects[j], near_vector)
                              = Distance(objects[k], near_vector)
                        /\ j <= k
         IN <<objects[i]>> \o
            NearestFirst(objects, left \ {i}, near_vector, limit - 1)

NearVector(objects, near_vector, limit) ==
    NearestFirst(objects, 1..Len(objects), near_vector, limit)

\* get_vector_embedding: the vector, or the request's exception re-raised.
GetVectorEmbedding(text, api) ==
    [raised |-> ~api.ok, value |-> api.body]

\* Mutant: the loop starts at the second result.
Matches_SkipsFirst(results) ==
    [k \in 1..(Len(results) - 1) |->
        [file_path |-> results[k + 1].file_path,
         content |-> results[k + 1].content]]

\* The loop over results.objects, lines 67-73.
Matches(results) ==
    [k \in 1..Len(results) |->
        [file_path |-> results[k].file_path, content |-> results[k].content]]

\* Mutant: client.close() follows the loop instead of sitting in finally.
SearchCodeBase_NoFinally(st, query, limit, api, conn, srch) ==
    LET query_embedding == GetVectorEmbedding(query, api)
        results == NearVector(st.objects, query_embedding.value, limit)
        out == [raised |-> TRUE, steps |-> <<"embed">>, results |-> <<>>,
                matches |-> <<>>, clients_created |-> 0, clients_closed |-> 0]
    IN IF query_embedding.raised THEN out
       ELSE IF conn = "error"
       THEN [out EXCEPT !.steps = <<"embed", "connect">>]
       ELSE IF ~st.exists \/ srch = "error"
       THEN [out EXCEPT !.steps = <<"embed", "connect", "search">>,
                        !.clients_created = 1]
       ELSE [out EXCEPT !.raised = FALSE,
                        !.steps = <<"embed", "connect", "search", "close">>,
                        !.results = results,
                        !.matches = Matches(results),
                        !.clients_created = 1, !.clients_closed = 1]

\* search_code_base(query, limit).  api, conn and srch are the answers of the
\* embedding endpoint, of the connection and of the query.
SearchCodeBase(st, query, limit, api, conn, srch) ==
    LET query_embedding == GetVectorEmbedding(query, api)
        results == NearVector(st.objects, query_embedding.value, limit)
        out == [raised |-> TRUE, steps |-> <<"embed">>, results |-> <<>>,
                matches |-> <<>>, clients_created |-> 0, clients_closed |-> 0]
    IN IF query_embedding.raised THEN out
       ELSE IF conn = "error"
       THEN [out EXCEPT !.steps = <<"embed", "connect">>]
       ELSE IF ~st.exists \/ srch = "error"
       THEN [out EXCEPT !.steps = <<"embed", "connect", "search", "close">>,
                        !.clients_created = 1, !.clients_closed = 1]
       ELSE [out EXCEPT !.raised = FALSE,
                        !.steps = <<"embed", "connect", "search", "close">>,
                        !.results = results,
                        !.matches = Matches(results),
                        !.clients_created = 1, !.clients_closed = 1]

----------------------------------------------------------------------------
(* scripts/generate_task_plan.py *)

TicksPerSecond == 2

\* datetime.now().strftime("%Y%m%d_%H%M%S"): the time cut to the second.
Strftime(t) == ToString(t \div TicksPerSecond)

\* Mutant: a placeholder is returned when there is no search result.
FormatCodeContext_Placeholder(search_results) ==
    IF search_results = <<>> THEN <<"No relevant code found">>
    ELSE <<"File: ">> \o search_results[1].file_path

\* "\n".join of one block per search result; (fence) is the three backquotes.
RECURSIVE FormatCodeContext(_)
FormatCodeContext(search_results) ==
    IF search_results = <<>> THEN <<>>
    ELSE LET res == Head(search_results)
             block == <<"File: ">> \o res.file_path \o <<"\n(fence)python\n">>
                      \o res.content \o <<"\n(fence)\n">>
         IN IF Len(search_results) = 1 THEN block
            ELSE block \o <<"\n">> \o FormatCodeContext(Tail(search_results))

\* SYSTEM_PROMPT.format(code=code_context)
SystemPromptFormat(code) ==
    <<"SYSTEM_PROMPT before {code}">> \o code \o <<"SYSTEM_PROMPT after {code}">>

\* Mutant: a failed request is logged and an empty plan returned.
GetChatCompletion_ReturnsEmpty(system_prompt, user_query, chat) ==
    [messages |-> <<[role |-> "system", content |-> system_prompt],
                    [role |-> "user", content |-> user_query]>>,
     raised |-> FALSE,
     value |-> chat.body]

\* Mutant: the user message is put before the system message.
GetChatCompletion_UserFirst(system_prompt, user_query, chat) ==
    [messages |-> <<[role |-> "user", content |-> user_query],
                    [role |-> "system", content |-> system_prompt]>>,
     raised |-> ~chat.ok,
     value |-> chat.body]

\* get_chat_completion: the request, and the answer or the exception re-raised.
GetChatCompletion(system_prompt, user_query, chat) ==
    [messages |-> <<[role |-> "system", content |-> system_prompt],
                    [role |-> "user", content |-> user_query]>>,
     raised |-> ~chat.ok,
     value |-> chat.body]

\* Mutant: the plan is trimmed before it is written.
FileContent_TrimsPlan(query, task_plan, code_context, t) ==
    <<"# Task Query - ", Strftime(t), "\n\n## User Query\n">> \o query
    \o <<"\n\n## Task Plan\n">> \o Strip(task_plan)
    \o <<"\n\n## Relevant Code Context\n">> \o code_context \o <<"\n">>

\* The f-string of lines 69-79.
FileContent(query, task_plan, code_context, t) ==
    <<"# Task Query - ", Strftime(t), "\n\n## User Query\n">> \o query
    \o <<"\n\n## Task Plan\n">> \o task_plan
    \o <<"\n\n## Relevant Code Context\n">> \o code_context \o <<"\n">>

FileName(t) == <<"query_", Strftime(t), ".md">>

\* open(filename, 'w') and f.write(content): the file is created or truncated,
\* then written.
WriteFile(dir, name, content) ==
    {f \in dir : f.name # name} \cup {[name |-> name, content |-> content]}

\* save_query_and_response.  save is what the file system does: "ok",
\* "open_error" (makedirs or open raises) or "write_error" (write raises
\* after open has truncated the file).
SaveQueryAndResponse(dir, query, task_plan, code_context, t, save) ==
    LET filename == FileName(t)
        content == FileContent(query, task_plan, code_context, t)
    IN CASE save = "open_error" ->
              [raised |-> TRUE, dir |-> dir, filename |-> None]
         [] save = "write_error" ->
              [raised |-> TRUE, dir |-> WriteFile(dir, filename, <<>>),
               filename |-> None]
         [] OTHER ->
              [raised |-> FALSE, dir |-> WriteFile(dir, filename, content),
               filename |-> Some(filename)]

NoRun ==
    [query |-> <<>>, steps |-> <<>>, failed_step |-> "",
     error_printed |-> FALSE, results |-> <<>>, matches |-> <<>>,
     code_context |-> <<>>, messages |-> <<>>, task_plan |-> None,
     saved_file |-> None, plan_printed |-> FALSE,
     clients_created |-> 0, clients_closed |-> 0, escaped |-> FALSE,
     answers |-> [line |-> None, api |-> HttpError, conn |-> "ok",
                  srch |-> "ok", chat |-> HttpError, save |-> "ok"]]

\* Mutant: the handler prints and re-raises.
Failed_Reraises(r, step) ==
    [r EXCEPT !.failed_step = step, !.error_printed = TRUE, !.escaped = TRUE]

\* except Exception as e: print("Error during task planning"), lines 109-110.
Failed(r, step) ==
    [r EXCEPT !.failed_step = step, !.error_printed = TRUE, !.escaped = FALSE]

\* generate_task_plan(): the record of the call and the queries directory it
\* leaves.  line is what input() reads on line 90, None when it raises
\* EOFError, which happens before the try statement.
GenerateTaskPlan(st, dir, line, t, api, conn, srch, chat, save) ==
    LET user_query == line[1]
        s == SearchCodeBase(st, user_query, DefaultLimit, api, conn, srch)
        r1 == [NoRun EXCEPT !.query = user_query, !.steps = s.steps,
                            !.results = s.results, !.matches = s.matches,
                            !.clients_created = s.clients_created,
                            !.clients_closed = s.clients_closed]
        code_context == FormatCodeContext(s.matches)
        system_prompt == SystemPromptFormat(code_context)
        c == GetChatCompletion(system_prompt, user_query, chat)
        r2 == [r1 EXCEPT !.code_context = code_context,
                         !.steps = @ \o <<"format", "chat">>,
                         !.messages = c.messages]
        sv == SaveQueryAndResponse(dir, user_query, c.value, code_context, t, save)
        r3 == [r2 EXCEPT !.task_plan = Some(c.value),
                         !.steps = @ \o <<"save">>]
    IN IF line = None
       THEN [run |-> [NoRun EXCEPT !.failed_step = "input", !.escaped = TRUE],
             dir |-> dir]
       ELSE IF s.raised
       THEN [run |-> Failed(r1, IF s.steps[Len(s.steps)] = "close"
                                THEN "search" ELSE s.steps[Len(s.steps)]),
             dir |-> dir]
       ELSE IF c.raised
       THEN [run |-> Failed(r2, "chat"), dir |-> dir]
       ELSE IF sv.raised
       THEN [run |-> Failed(r3, "save"), dir |-> sv.dir]
       ELSE [run |-> [r3 EXCEPT !.saved_file = sv.filename,
                                !.steps = @ \o <<"print">>,
                                !.plan_printed = TRUE],
             dir |-> sv.dir]

Queries == {<<"q">>, <<"r", "s">>}

Plans == {<<"p">>, <<" ", "P", "\n">>}

\* One call of generate_task_plan().
GenerateTaskPlanRun ==
    /\ program = "generate_task_plan"
    /\ runs_done < MaxRuns
    /\ \E line \in {None} \cup {Some(q) : q \in Queries},
          api \in {HttpError, HttpOk(<<2>>)},
          conn \in {"ok", "error"}, srch \in {"ok", "error"},
          chat \in {HttpError} \cup {HttpOk(p) : p \in Plans},
          save \in {"ok", "open_error", "write_error"} :
          \E g \in {GenerateTaskPlan(store, queries_dir, line, now,
                                     api, conn, srch, chat, save)} :
             \* the answer of a service that is not asked is not an input
             /\ "embed" \notin Range(g.run.steps) => api = HttpError
             /\ "connect" \notin Range(g.run.steps) => conn = "ok"
             /\ "search" \notin Range(g.run.steps) => srch = "ok"
             /\ "chat" \notin Range(g.run.steps) => chat = HttpError
             /\ "save" \notin Range(g.run.steps) => save = "ok"
             /\ run' = [g.run EXCEPT !.answers =
                           [line |-> line, api |-> api, conn |-> conn,
                            srch |-> srch, chat |-> chat, save |-> save]]
             /\ queries_dir' = g.dir
             /\ history' = IF g.run.failed_step = ""
                           THEN Append(history,
                                       [query |-> g.run.query,
                                        task_plan |-> g.run.task_plan[1]])
                           ELSE history
    /\ runs_done' = runs_done + 1
    /\ UNCHANGED <<program, now, interview_vars, store_vars, index_vars>>

\* The task-plan script is not run.
PlanIdle ==
    /\ queries_dir = {}
    /\ runs_done = 0
    /\ run = NoRun
    /\ history = <<>>

----------------------------------------------------------------------------
(* scripts/index_code_base.py *)

ExcludedDirs == {"scripts", "venv", ".specstory"}

\* The embedding endpoint answers with an HTTP error or with a vector.
EmbeddingApiOutcomes == {HttpError, HttpOk(<<>>), HttpOk(<<1>>), HttpOk(<<2>>)}

\* get_azure_embedding: the vector, or None when the request raised.
GetAzureEmbedding(text, api) ==
    IF ~api.ok THEN None ELSE Some(api.body)

\* Mutant: the collection is created without looking at list_all().
InitWeaviateCollection_AlwaysCreates(st) ==
    [exists |-> TRUE, objects |-> <<>>, creates |-> st.creates + 1]

\* init_weaviate_collection: create CodeFile unless it is listed.
InitWeaviateCollection(st) ==
    IF ~st.exists
    THEN [exists |-> TRUE, objects |-> <<>>, creates |-> st.creates + 1]
    ELSE st

\* should_process_the_file, lines 71-75; file_path = root_path / rel.
ShouldProcessTheFile(root_parts, entry) ==
    /\ entry.is_file
    /\ Contains(Suffix(entry.rel[Len(entry.rel)]), <<".", "p", "y">>)
    /\ ~ \E excluded_dir \in ExcludedDirs :
            excluded_dir \in Range(root_parts \o entry.rel)

\* Mutant: the test is `embedding is None`.
NotEmbedding_IsNone(embedding) == embedding = None

\* not embedding: None and the empty list are both falsy.
NotEmbedding(embedding) == embedding = None \/ embedding[1] = <<>>

\* The statements under try, lines 81-98: what they did and whether they
\* raised.  api and ins are the answers of the two services if asked.
TryBody(entry, api, ins) ==
    LET content == entry.content
        embedding == GetAzureEmbedding(content, api)
        record == [file_path |-> JoinPath(entry.rel), content |-> content,
                   vector |-> embedding[1]]
        nothing == [outcome |-> "", raised |-> FALSE,
                    api_calls |-> <<>>, insert_calls |-> 0, inserted |-> <<>>]
    IN IF ~entry.readable
       THEN [nothing EXCEPT !.outcome = "read_error", !.raised = TRUE]
       ELSE IF Strip(content) = <<>>
       THEN [nothing EXCEPT !.outcome = "empty"]
       ELSE IF NotEmbedding(embedding)
       THEN [nothing EXCEPT !.outcome = "Failed to get embedding",
                            !.raised = TRUE, !.api_calls = <<content>>]
       ELSE IF ins = "error"
       THEN [nothing EXCEPT !.outcome = "insert_error", !.raised = TRUE,
                            !.api_calls = <<content>>, !.insert_calls = 1]
       ELSE [nothing EXCEPT !.outcome = "processed",
                            !.api_calls = <<content>>, !.insert_calls = 1,
                            !.inserted = <<record>>]

\* Mutant: no except clause, the exception leaves the loop.
ExceptException_Missing(r) == r

\* except Exception as e: print(...), lines 100-101.
ExceptException(r) ==
    IF r.raised THEN [r EXCEPT !.raised = FALSE, !.printed = "Error processing"]
    ELSE r

\* One iteration of the for loop, lines 70-101.
LoopBody(root_parts, entry, api, ins) ==
    IF ~ShouldProcessTheFile(root_parts, entry)
    THEN [outcome |-> "not_eligible", raised |-> FALSE, api_calls |-> <<>>,
          insert_calls |-> 0, inserted |-> <<>>, printed |-> ""]
    ELSE LET r == TryBody(entry, api, ins)
         IN ExceptException(
               [outcome |-> r.outcome, raised |-> r.raised,
                api_calls |-> r.api_calls, insert_calls |-> r.insert_calls,
                inserted |-> r.inserted,
                printed |-> IF r.outcome = "processed" THEN "Processed" ELSE ""])

\* main() up to the loop: connect, init_weaviate_collection, collections.get.
IndexMainStart ==
    /\ program = "index_code_base"
    /\ idx_pc = "start"
    /\ \E conn \in {"ok", "error"} :
          IF conn = "error"
          THEN idx_pc' = "crashed" /\ UNCHANGED <<store, idx_pos>>
          ELSE /\ store' = InitWeaviateCollection(store)
               /\ idx_pc' = "walking"
               /\ idx_pos' = 1
    /\ UNCHANGED <<program, now, interview_vars, plan_vars, root, tree, idx_log,
                   embed_calls>>

\* The for loop takes the next path of the walk.
IndexFile ==
    /\ program = "index_code_base"
    /\ idx_pc = "walking"
    /\ idx_pos <= Len(tree)
    /\ \E api \in EmbeddingApiOutcomes, ins \in {"ok", "error"} :
          LET r == LoopBody(root, tree[idx_pos], api, ins)
          IN \* the answer of a service that is not asked is not an input
             /\ r.api_calls = <<>> => api = HttpError
             /\ r.insert_calls = 0 => ins = "ok"
             /\ idx_log' = Append(idx_log, r @@ [api |-> api, ins |-> ins])
             /\ embed_calls' = embed_calls \o r.api_calls
             /\ store' = [store EXCEPT !.objects = @ \o r.inserted]
             /\ IF r.raised
                THEN idx_pc' = "crashed" /\ UNCHANGED idx_pos
                ELSE idx_pc' = "walking" /\ idx_pos' = idx_pos + 1
    /\ UNCHANGED <<program, now, interview_vars, plan_vars, root, tree>>

\* The walk is exhausted: index_code_base and main return.
IndexReturn ==
    /\ program = "index_code_base"
    /\ idx_pc = "walking"
    /\ idx_pos > Len(tree)
    /\ idx_pc' = "done"
    /\ UNCHANGED <<program, now, interview_vars, store_vars, plan_vars, root,
                   tree, idx_pos, idx_log, embed_calls>>

\* The indexing script is not run.
IndexIdle ==
    /\ root = <<>>
    /\ tree = <<>>
    /\ idx_pc = "off"
    /\ idx_pos = 0
    /\ idx_log = <<>>
    /\ embed_calls = <<>>

\* File contents: empty, blank, and one with text between whitespace.
Contents == {<<>>, <<" ", "\n">>, <<" ", "x", "\n">>}

\* The paths a walk is made of: files (readable or not) and a directory.
Entries ==
    {[rel |-> rel, is_file |-> TRUE, readable |-> TRUE, content |-> c] :
        rel \in {<<"a.py">>, <<"pkg", "b.pyc">>, <<"scripts", "d.py">>,
                 <<"notes.txt">>},
        c \in Contents}
    \cup
    {[rel |-> rel, is_file |-> TRUE, readable |-> FALSE, content |-> <<>>] :
        rel \in {<<"a.py">>, <<"pkg", "b.pyc">>}}
    \cup
    {[rel |-> <<"pkg">>, is_file |-> FALSE, readable |-> FALSE, content |-> <<>>]}

Roots == {<<"srv", "app">>, <<"srv", "venv", "app">>}

\* A record left in the collection by an earlier run.
OldObject ==
    [file_path |-> <<"a.py">>, content |-> <<" ", "x", "\n">>, vector |-> <<1>>]

InitIndex ==
    /\ program = "index_code_base"
    /\ now = 0
    /\ InterviewIdle
    /\ store \in {[exists |-> FALSE, objects |-> <<>>, creates |-> 0],
                  [exists |-> TRUE, objects |-> <<OldObject>>, creates |-> 0]}
    /\ root \in Roots
    /\ \E n \in 0..MaxFiles :
          /\ tree \in [1..n -> Entries]
          /\ \A i, j \in 1..n : i # j => tree[i].rel # tree[j].rel
    /\ idx_pc = "start"
    /\ idx_pos = 0
    /\ idx_log = <<>>
    /\ embed_calls = <<>>
    /\ PlanIdle

NextIndex == IndexMainStart \/ IndexFile \/ IndexReturn

SpecIndex == InitIndex /\ [][NextIndex]_vars

\* The loop is sequential code: a step that can be taken is taken.
SpecIndexFair == SpecIndex /\ WF_vars(NextIndex)

----------------------------------------------------------------------------
(* Properties of the interview-attempt flow *)

StoredInterviewIds == {i.id : i \in db.Interview}

Count(s, x) == Cardinality({k \in 1..Len(s) : s[k] = x})

\* C1: a call with an interview_id that is not in storage fails with
\* InvalidInterviewIdException, does not call the storage's
\* create_interview_attempt, and leaves the stored attempts as they were.
C1_InvalidIdFails ==
    [][\A interview_id \in InterviewIds \ StoredInterviewIds :
       \A user_id \in UserIds, delay \in 0..1 :
          CreateInterviewAttempt(interview_id, user_id, delay) =>
             /\ result' = "InvalidInterviewIdException"
             /\ Count(call_log', "create_interview_attempt") = 0
             /\ handed_dto' = None
             /\ db'.InterviewAttempt = db.InterviewAttempt]_vars

\* A call with an absent id has failed while attempts were already stored.
C1_Witness ==
    /\ last_args # None
    /\ last_args[1][1] \notin StoredInterviewIds
    /\ result = "InvalidInterviewIdException"
    /\ Len(db.InterviewAttempt) >= 1

\* C2: every stored InterviewAttempt references an Interview in storage.
C2_AttemptReferencesInterview ==
    \A k \in 1..Len(db.InterviewAttempt) :
        db.InterviewAttempt[k].interview_id \in StoredInterviewIds

\* Attempts are stored, and a call for an interview that is absent was made.
C2_Witness ==
    /\ Len(db.InterviewAttempt) >= 2
    /\ last_args # None
    /\ last_args[1][1] \notin StoredInterviewIds

\* C3: the created attempt has start_datetime set and end_datetime and
\* scheduled_end_datetime null, in the DTO handed to storage and in the row.
C3_CreatedAttemptDatetimes ==
    /\ handed_dto # None =>
          /\ handed_dto[1].start_datetime # None
          /\ handed_dto[1].end_datetime = None
          /\ handed_dto[1].scheduled_end_datetime = None
    /\ \A k \in 1..Len(db.InterviewAttempt) :
          /\ db.InterviewAttempt[k].start_datetime # None
          /\ db.InterviewAttempt[k].end_datetime = None
          /\ db.InterviewAttempt[k].scheduled_end_datetime = None

\* A valid call has just handed its DTO to storage and the row is stored.
C3_Witness ==
    /\ result = "ok"
    /\ handed_dto # None
    /\ Len(db.InterviewAttempt) >= 1
    /\ db.InterviewAttempt[Len(db.InterviewAttempt)].interview_id
          = handed_dto[1].interview_id

\* C4: a call makes exactly one lookup get_interview_details([interview_id])
\* and then one create if the lookup returned a row, none (and the invalid-id
\* error) if it returned no row.
C4_OneLookupThenCreate ==
    last_args # None =>
        /\ lookup_args = Some(<<last_args[1][1]>>)
        /\ Len(call_log) >= 1
        /\ call_log[1] = "get_interview_details"
        /\ Count(call_log, "get_interview_details") = 1
        /\ lookup_rows # <<>> =>
              /\ call_log = <<"get_interview_details", "create_interview_attempt">>
              /\ result = "ok"
        /\ lookup_rows = <<>> =>
              /\ call_log = <<"get_interview_details">>
              /\ result = "InvalidInterviewIdException"

\* Both outcomes occur: a call whose lookup found a row, after stored attempts.
C4_Witness ==
    /\ last_args # None
    /\ lookup_rows # <<>>
    /\ call_log = <<"get_interview_details", "create_interview_attempt">>
    /\ StoredInterviewIds # InterviewIds

AttemptIdsDistinct ==
    \A i, j \in 1..Len(db.InterviewAttempt) :
        i # j => db.InterviewAttempt[i].id # db.InterviewAttempt[j].id

\* C16: a successful call adds exactly one row to InterviewAttempt and
\* changes no other table; nothing is deduplicated and the row ids are distinct.
C16_OneRowPerCall ==
    /\ [] AttemptIdsDistinct
    /\ [][\A interview_id \in StoredInterviewIds :
          \A user_id \in UserIds, delay \in 0..1 :
             CreateInterviewAttempt(interview_id, user_id, delay) =>
                /\ Len(db'.InterviewAttempt) = Len(db.InterviewAttempt) + 1
                /\ SubSeq(db'.InterviewAttempt, 1, Len(db.InterviewAttempt))
                      = db.InterviewAttempt
                /\ db'.InterviewAttempt[Len(db'.InterviewAttempt)].interview_id
                      = interview_id
                /\ db'.InterviewAttempt[Len(db'.InterviewAttempt)].user_id
                      = user_id
                /\ db'.Interview = db.Interview
                /\ db'.InterviewConfig = db.InterviewConfig
                /\ db'.UserInterviewAccess = db.UserInterviewAccess]_vars

\* Two calls with the same (interview_id, user_id) left two rows, next to
\* non-empty other tables.
C16_Witness ==
    /\ Len(db.InterviewAttempt) >= 2
    /\ db.InterviewAttempt[1].interview_id = db.InterviewAttempt[2].interview_id
    /\ db.InterviewAttempt[1].user_id = db.InterviewAttempt[2].user_id
    /\ db.InterviewAttempt[1].id # db.InterviewAttempt[2].id
    /\ db.InterviewConfig # {}
    /\ db.UserInterviewAccess # {}

\* C20: whatever the DTO's scheduled_end_datetime, the persisted row's
\* scheduled_end_datetime is null, and its interview_id, user_id and
\* end_datetime are the DTO's.
C20_ScheduledEndNotPersisted ==
    /\ \A k \in 1..Len(db.InterviewAttempt) :
          db.InterviewAttempt[k].scheduled_end_datetime = None
    /\ (handed_dto # None /\ result = "ok") =>
          /\ Len(db.InterviewAttempt) >= 1
          /\ LET row == db.InterviewAttempt[Len(db.InterviewAttempt)]
             IN /\ row.interview_id = handed_dto[1].interview_id
                /\ row.user_id = handed_dto[1].user_id
                /\ row.end_datetime = handed_dto[1].end_datetime
                /\ row.scheduled_end_datetime = None

\* A DTO with both end_datetime and scheduled_end_datetime set was stored.
C20_Witness ==
    /\ program = "storage"
    /\ handed_dto # None
    /\ handed_dto[1].scheduled_end_datetime # None
    /\ handed_dto[1].end_datetime # None
    /\ Len(db.InterviewAttempt) >= 1

----------------------------------------------------------------------------
(* Properties of the indexing walk *)

IsBlank(s) == \A i \in 1..Len(s) : s[i] \in Whitespace

Visited == 1..Len(idx_log)

FailureOutcomes == {"read_error", "Failed to get embedding", "insert_error"}

\* C5: for an eligible file whose content is empty after trimming, the walk
\* makes no embedding call and inserts no record, and goes on to the next path.
C5_EmptyFileSkipped ==
    /\ \A k \in Visited :
          ( /\ ShouldProcessTheFile(root, tree[k])
            /\ tree[k].readable
            /\ IsBlank(tree[k].content) ) =>
                /\ idx_log[k].api_calls = <<>>
                /\ idx_log[k].insert_calls = 0
                /\ idx_log[k].inserted = <<>>
                /\ ~idx_log[k].raised
                /\ idx_pc \in {"walking", "done"}
                /\ idx_pos > k
    /\ \A i \in 1..Len(embed_calls) : ~IsBlank(embed_calls[i])
    /\ \A i \in 1..Len(store.objects) : ~IsBlank(store.objects[i].content)

\* An eligible whitespace-only file was skipped and the next path was visited.
C5_Witness ==
    \E k \in Visited :
        /\ ShouldProcessTheFile(root, tree[k])
        /\ tree[k].readable
        /\ tree[k].content = <<" ", "\n">>
        /\ idx_log[k].outcome = "empty"
        /\ k < Len(idx_log)
        /\ idx_log[k + 1].outcome = "processed"

C8_FailuresCaught ==
    /\ idx_pc = "crashed" => idx_pos = 0
    /\ \A k \in Visited :
          /\ ~idx_log[k].raised
          /\ idx_log[k].outcome \in FailureOutcomes =>
                idx_log[k].printed = "Error processing"
          /\ ( /\ ShouldProcessTheFile(root, tree[k])
               /\ tree[k].readable
               /\ ~IsBlank(tree[k].content) ) =>
                   Len(idx_log[k].api_calls) = 1
    /\ idx_pc = "done" => Len(idx_log) = Len(tree)

\* C8: a failure on one file (read, embedding or insert) is caught and logged,
\* the eligible files after it are still processed, and the loop reaches the
\* end of the walk.
C8_LoopSurvivesFailures ==
    /\ [] C8_FailuresCaught
    /\ (idx_pc = "walking") ~> (idx_pc = "done")

\* The walk ended after a file failed and a later file was processed.
C8_Witness ==
    /\ idx_pc = "done"
    /\ \E j, k \in Visited :
          /\ j < k
          /\ idx_log[j].outcome \in FailureOutcomes
          /\ idx_log[k].outcome = "processed"
\* C11: indexing upserts, so after indexing a tree that was indexed before
\* the collection holds one record per file.
C11_OneRecordPerFile ==
    idx_pc = "done" =>
        \A i, j \in 1..Len(store.objects) :
            i # j => store.objects[i].file_path # store.objects[j].file_path

\* C13: init_weaviate_collection creates CodeFile only when it does not
\* exist; on an existing collection it creates nothing and leaves the
\* collection and its records as they are, however often it is called.
C13_CreateOnlyWhenAbsent ==
    /\ [](store.creates <= 1)
    /\ [][(idx_pc = "start" /\ idx_pc' = "walking") =>
             /\ store.exists => store' = store
             /\ ~store.exists =>
                   /\ store'.exists
                   /\ store'.objects = <<>>
                   /\ store'.creates = store.creates + 1
             /\ InitWeaviateCollection(store') = store'
             /\ InitWeaviateCollection(InitWeaviateCollection(store'))
                   = store']_vars

\* init_weaviate_collection ran on an existing collection that holds a record.
C13_Witness ==
    /\ idx_pc = "walking"
    /\ idx_pos = 1
    /\ store.exists
    /\ store.creates = 0
    /\ store.objects = <<OldObject>>

\* The path lies in a directory named scripts, venv or .specstory below the
\* root.
InExcludedSubtree(entry) ==
    \E i \in 1..(Len(entry.rel) - 1) : entry.rel[i] \in ExcludedDirs

\* C14: no file of an excluded subtree of the root is embedded or inserted,
\* and every other regular file with suffix .py that is non-empty after
\* trimming has its embedding requested.
C14_ExclusionBySubtree ==
    \A k \in Visited :
        /\ InExcludedSubtree(tree[k]) =>
              /\ idx_log[k].api_calls = <<>>
              /\ idx_log[k].insert_calls = 0
        /\ ( /\ ~InExcludedSubtree(tree[k])
             /\ tree[k].is_file
             /\ Suffix(tree[k].rel[Len(tree[k].rel)]) = <<".", "p", "y">>
             /\ tree[k].readable
             /\ ~IsBlank(tree[k].content) ) =>
                 Len(idx_log[k].api_calls) = 1

\* C15: an inserted record carries the non-empty vector that a successful
\* embedding call returned for the record's content; when the call fails or
\* returns an empty vector nothing is inserted for the file.
C15_InsertedVectorFromEmbedding ==
    \A k \in Visited :
        /\ idx_log[k].inserted # <<>> =>
              /\ Len(idx_log[k].inserted) = 1
              /\ idx_log[k].api.ok
              /\ idx_log[k].api.body # <<>>
              /\ idx_log[k].inserted[1].vector = idx_log[k].api.body
              /\ idx_log[k].inserted[1].content = tree[k].content
              /\ idx_log[k].api_calls = <<tree[k].content>>
        /\ ( /\ idx_log[k].api_calls # <<>>
             /\ (~idx_log[k].api.ok \/ idx_log[k].api.body = <<>>) ) =>
                 /\ idx_log[k].inserted = <<>>
                 /\ idx_log[k].insert_calls = 0
                 /\ idx_log[k].outcome = "Failed to get embedding"

\* One file got an empty vector and was not inserted, a later one was inserted.
C15_Witness ==
    \E j, k \in Visited :
        /\ j < k
        /\ idx_log[j].api_calls # <<>>
        /\ idx_log[j].api = HttpOk(<<>>)
        /\ idx_log[j].inserted = <<>>
        /\ idx_log[k].inserted # <<>>
        /\ store.objects[Len(store.objects)] = idx_log[k].inserted[1]

----------------------------------------------------------------------------
(* Properties of the search and task-plan pipeline *)

\* The search of the last run returned normally.
SearchReturned == "format" \in Range(run.steps)

Properties(object) ==
    [file_path |-> object.file_path, content |-> object.content]

\* C6: on an index of n < 5 documents the default-limit search returns the n
\* documents, one match per document the store returns and in its order,
\* with no padding and no error.
C6_SmallIndexReturnsAll ==
    (SearchReturned /\ Len(store.objects) < DefaultLimit) =>
        /\ Len(run.matches) = Len(store.objects)
        /\ Len(run.matches) = Len(run.results)
        /\ \A k \in 1..Len(run.matches) :
              run.matches[k] = Properties(run.results[k])
        /\ \A i \in 1..Len(store.objects) :
              \E k \in 1..Len(run.matches) :
                 run.matches[k] = Properties(store.objects[i])
        /\ run.failed_step \notin {"embed", "connect", "search"}

\* A search over four documents returned them, nearest first, which is not
\* the order they were stored in.
C6_Witness ==
    /\ SearchReturned
    /\ Len(store.objects) = 4
    /\ Len(run.matches) = 4
    /\ run.matches[2] # Properties(store.objects[2])

\* C7: the saved markdown file contains the user query, the generated plan
\* and the code context, each verbatim.
C7_ArtifactVerbatim ==
    run.saved_file # None =>
        \E f \in queries_dir :
            /\ f.name = run.saved_file[1]
            /\ Contains(f.content, run.answers.chat.body)
            /\ Contains(f.content, run.query)
            /\ Contains(f.content, run.code_context)

\* A plan with surrounding whitespace was saved together with code context.
C7_Witness ==
    /\ run.saved_file # None
    /\ run.answers.chat.body = <<" ", "P", "\n">>
    /\ run.query = <<"r", "s">>
    /\ run.code_context # <<>>

EmbedFailed(a) == a.line # None /\ ~a.api.ok

SearchFailed(a) ==
    a.api.ok /\ (a.conn = "error" \/ a.srch = "error" \/ ~store.exists)

ChatFailed(a) ==
    /\ a.api.ok /\ a.conn = "ok" /\ a.srch = "ok" /\ store.exists
    /\ ~a.chat.ok

\* C9: when the query embedding, the vector search or the chat completion
\* fails, the run stops there: no later step, no file written, no plan printed.
C9_QueryFailureAborts ==
    [][( /\ runs_done' # runs_done
         /\ \/ EmbedFailed(run'.answers)
            \/ SearchFailed(run'.answers)
            \/ ChatFailed(run'.answers) ) =>
            /\ queries_dir' = queries_dir
            /\ history' = history
            /\ run'.saved_file = None
            /\ ~run'.plan_printed
            /\ run'.error_printed
            /\ run'.task_plan = None
            /\ Range(run'.steps) \cap {"save", "print"} = {}
            /\ EmbedFailed(run'.answers) => run'.steps = <<"embed">>
            /\ SearchFailed(run'.answers) =>
                  Range(run'.steps) \cap {"format", "chat"} = {}
            /\ ChatFailed(run'.answers) =>
                  run'.steps[Len(run'.steps)] = "chat"]_vars

\* A run failed at the chat completion after an earlier run had saved a file.
C9_Witness ==
    /\ runs_done = 2
    /\ ChatFailed(run.answers)
    /\ run.failed_step = "chat"
    /\ queries_dir # {}

\* C10: the query and the plan of every successful run are still in a file
\* of the queries directory.
C10_EveryRunKeepsArtifact ==
    \A k \in 1..Len(history) :
        \E f \in queries_dir :
            /\ Contains(f.content, history[k].query)
            /\ Contains(f.content, history[k].task_plan)
SaveFailed(a) ==
    /\ a.api.ok /\ a.conn = "ok" /\ a.srch = "ok" /\ store.exists
    /\ a.chat.ok /\ a.save # "ok"

\* The steps of a run in the order the code takes them.
PipelineOrder ==
    <<"embed", "connect", "search", "close", "format", "chat", "save", "print">>

\* C12: a run takes its steps in the fixed order embed, search, chat
\* completion, save, print, a step being taken only when every step before it
\* succeeded, and the chat request carries exactly two messages: the system
\* message with the code context spliced into the template, then the user
\* message with the raw query.
C12_FixedOrderTwoMessages ==
    (runs_done > 0 /\ run.answers.line # None) =>
        /\ run.steps = SubSeq(PipelineOrder, 1, Len(run.steps))
        /\ run.steps # <<>>
        /\ EmbedFailed(run.answers) => run.steps = <<"embed">>
        /\ SearchFailed(run.answers) =>
              run.steps[Len(run.steps)] \in {"connect", "close"}
        /\ ChatFailed(run.answers) => run.steps[Len(run.steps)] = "chat"
        /\ SaveFailed(run.answers) => run.steps[Len(run.steps)] = "save"
        /\ "chat" \notin Range(run.steps) => run.messages = <<>>
        /\ "chat" \in Range(run.steps) =>
              run.messages =
                 <<[role |-> "system",
                    content |-> <<"SYSTEM_PROMPT before {code}">>
                                \o run.code_context
                                \o <<"SYSTEM_PROMPT after {code}">>],
                   [role |-> "user", content |-> run.answers.line[1]]>>

\* A run went through every step with a code context that is not empty.
C12_Witness ==
    /\ runs_done > 0
    /\ run.steps = PipelineOrder
    /\ run.code_context # <<>>
    /\ Len(run.messages) = 2

\* C17 as stated: no run lets an exception escape.
C17_NeverEscapes ==
    runs_done > 0 => (~run.escaped /\ (run.failed_step # "" => run.error_printed))

\* C17, amended: a failure of the search, of the chat completion or of the
\* writing of the file is caught, the error is printed, no step is taken
\* twice and the function returns; an exception escapes only when input()
\* raises, before the try statement.
C17_PipelineFailuresCaught ==
    runs_done > 0 =>
        /\ ( \/ EmbedFailed(run.answers) \/ SearchFailed(run.answers)
             \/ ChatFailed(run.answers) \/ SaveFailed(run.answers) ) =>
               /\ ~run.escaped
               /\ run.error_printed
               /\ ~run.plan_printed
               /\ \A i, j \in 1..Len(run.steps) :
                     run.steps[i] = run.steps[j] => i = j
        /\ run.escaped <=> run.answers.line = None
        /\ run.answers.line = None =>
               /\ run.steps = <<>>
               /\ ~run.error_printed

\* The writing of the file failed in a run and the failure was caught.
C17_Witness ==
    /\ runs_done > 0
    /\ SaveFailed(run.answers)
    /\ run.error_printed
    /\ ~run.escaped

\* C18: a client that was created is closed, whether the query returned or
\* the collection lookup or the query raised; when the query embedding fails
\* no client is created and no search is issued.
C18_ClientClosedOnEveryPath ==
    runs_done > 0 =>
        /\ run.clients_closed = run.clients_created
        /\ ( /\ run.answers.line # None /\ run.answers.api.ok
             /\ run.answers.conn = "ok" ) =>
               (run.clients_created = 1 /\ run.clients_closed = 1)
        /\ EmbedFailed(run.answers) =>
               /\ run.clients_created = 0
               /\ Range(run.steps) \cap {"connect", "search"} = {}

\* The nearest-neighbour query raised after the client had been created.
C18_Witness ==
    /\ runs_done > 0
    /\ run.answers.api.ok /\ run.answers.conn = "ok"
    /\ (run.answers.srch = "error" \/ ~store.exists)
    /\ run.clients_created = 1
    /\ run.clients_closed = 1
    /\ run.error_printed

\* C19: when the search returns no match the run goes on: the chat request is
\* sent with an empty code context in the template, and when the completion
\* and the writing succeed the file is written and the plan is printed.
C19_NoMatchStillPlans ==
    (runs_done > 0 /\ SearchReturned /\ run.matches = <<>>) =>
        /\ run.code_context = <<>>
        /\ "chat" \in Range(run.steps)
        /\ Len(run.messages) = 2
        /\ run.messages[1].content =
              <<"SYSTEM_PROMPT before {code}", "SYSTEM_PROMPT after {code}">>
        /\ (run.answers.chat.ok /\ run.answers.save = "ok") =>
              /\ run.plan_printed
              /\ run.saved_file # None
              /\ run.task_plan = Some(run.answers.chat.body)
              /\ \E f \in queries_dir :
                    /\ Some(f.name) = run.saved_file
                    /\ Contains(f.content, run.answers.chat.body)

\* A run over an existing, empty collection saved its file and printed the plan.
C19_Witness ==
    /\ runs_done > 0
    /\ store.exists /\ store.objects = <<>>
    /\ SearchReturned /\ run.matches = <<>>
    /\ run.plan_printed
    /\ run.saved_file # None
----------------------------------------------------------------------------

InitInterview ==
    /\ program = "interview_app"
    /\ now = 0
    /\ \E ids \in SUBSET InterviewIds :
       LET cfg == ids
           acc == ids \X {"u1"}
       IN /\ db = [Interview |-> {Interview(i) : i \in ids},
                   InterviewConfig |-> {InterviewConfig(i) : i \in cfg},
                   InterviewAttempt |-> <<>>,
                   UserInterviewAccess |->
                      {UserInterviewAccess(p[1], p[2]) : p \in acc}]
    /\ next_uuid = 1
    /\ call_log = <<>>
    /\ lookup_args = None
    /\ lookup_rows = <<>>
    /\ handed_dto = None
    /\ result = "none"
    /\ last_args = None
    /\ store = [exists |-> FALSE, objects |-> <<>>, creates |-> 0]
    /\ IndexIdle
    /\ PlanIdle

NextInterview == CreateInterviewAttemptCall \/ Tick

\* The storage adapter on its own, over a database holding one interview.
InitStorage ==
    /\ program = "storage"
    /\ now = 0
    /\ db = [Interview |-> {Interview("i1")},
             InterviewConfig |-> {InterviewConfig("i1")},
             InterviewAttempt |-> <<>>,
             UserInterviewAccess |-> {}]
    /\ next_uuid = 1
    /\ call_log = <<>>
    /\ lookup_args = None
    /\ lookup_rows = <<>>
    /\ handed_dto = None
    /\ result = "none"
    /\ last_args = None
    /\ store = [exists |-> FALSE, objects |-> <<>>, creates |-> 0]
    /\ IndexIdle
    /\ PlanIdle

NextStorage == StorageCreateCall \/ Tick

SpecStorage == InitStorage /\ [][NextStorage]_vars

SpecInterview == InitInterview /\ [][NextInterview]_vars

\* The k-th document of an index: its content is k characters long.
Document(k) ==
    [file_path |-> IF k % 2 = 1 THEN <<"a.py">> ELSE <<"pkg", "/", "b.pyc">>,
     content |-> [i \in 1..k |-> "x"],
     vector |-> <<(k * 2) % 5>>]

InitPlan ==
    /\ program = "generate_task_plan"
    /\ now = 0
    /\ InterviewIdle
    /\ IndexIdle
    /\ \/ store = [exists |-> FALSE, objects |-> <<>>, creates |-> 0]
       \/ \E n \in 0..MaxDocs :
             store = [exists |-> TRUE, creates |-> 0,
                      objects |-> [k \in 1..n |-> Document(k)]]
    /\ PlanIdle

NextPlan == GenerateTaskPlanRun \/ Tick

SpecPlan == InitPlan /\ [][NextPlan]_vars

Init == InitInterview \/ InitStorage \/ InitIndex \/ InitPlan
Next == NextInterview \/ NextStorage \/ NextIndex \/ NextPlan
Spec == Init /\ [][Next]_vars
====
